---- MODULE Spec2Model ----
(***************************************************************************)
(* Model of netlify/functions/fpds-proxy.js, the FPDS Atom feed proxy.     *)
(*                                                                         *)
(* The source file holds two versions of the proxy one after the other:    *)
(*   "strict"  (lines   1-184): fetch(), buildFPDSQuery, errors as 500;    *)
(*   "lenient" (lines 185-430): https.get, inline query, errors as 200.    *)
(* Each version is modelled with its own handler, query construction and   *)
(* parseAtomFeed; extractTag and extractTagAttribute are identical in      *)
(* both.                                                                   *)
(*                                                                         *)
(* Strings are TLC strings, read character by character with SubSeq; the   *)
(* regular expressions of the source are modelled as matchers over the     *)
(* characters.  An optional value (null in the source) is a sequence of    *)
(* length 0 or 1: Null == <<>>, a string s is <<s>>.                       *)
(***************************************************************************)
EXTENDS Integers, Sequences, FiniteSets, TLC

VARIABLES
  variant,      \* which version of the proxy runs: "strict" or "lenient"
  pc,           \* position of the running operation
  xmlText,      \* the markup handed to parseAtomFeed / extractTag
  nPieces,      \* number of pieces the markup was built from
  tagName,      \* extractTag's tagName argument
  extracted,    \* result of extractTag
  extractedAttr,\* result of extractTagAttribute
  lib,          \* which element library the feed document is built from
  inEntry,      \* the document under construction has an open <entry>
  nEntries,     \* number of <entry> openings in the document
  nFields,      \* number of elements in the current entry
  contracts,    \* result of parseAtomFeed
  method,       \* event.httpMethod
  params,       \* event.queryStringParameters, a record of optional strings
  today,        \* the calendar date new Date() returns, Null before it is read
  query,        \* the query expression built for the upstream request
  reqCount,     \* number of outbound requests issued
  upstream,     \* what the upstream does with the request
  data,         \* the response body received so far
  parseCalls,   \* number of calls of parseAtomFeed
  error,        \* the message of the caught exception
  response      \* the value the handler returned

vars == <<variant, pc, xmlText, nPieces, tagName, extracted, extractedAttr,
          lib, inEntry, nEntries, nFields, contracts, method, params, today,
          query, reqCount, upstream, data, parseCalls, error, response>>

handlerVars == <<method, params, today, query, reqCount, upstream, data,
                 parseCalls, error, response>>

extractVars == <<nPieces, tagName, extracted, extractedAttr>>

feedVars == <<lib, inEntry, nEntries, nFields>>

(***************************************************************************)
(* Characters and strings                                                  *)
(*                                                                         *)
(* A text is a string together with its characters (c) and its characters  *)
(* in the canonical form the 'i' flag compares them in (l), and the        *)
(* ascending positions of the characters the regular expressions of the    *)
(* source search for: '<' (lt), '>' (gt) and '"' (qt).  Positions are      *)
(* 1-based.  A span <<a, b>> is the substring from position a to b.        *)
(***************************************************************************)
Null == <<>>

Some(s) == <<s>>

UpperChars == "ABCDEFGHIJKLMNOPQRSTUVWXYZ"

LowerChars == "abcdefghijklmnopqrstuvwxyz"

UpperSet == {SubSeq(UpperChars, k, k) : k \in 1..26}

LowerMap == [c \in UpperSet |->
               SubSeq(LowerChars,
                      CHOOSE k \in 1..26 : SubSeq(UpperChars, k, k) = c,
                      CHOOSE k \in 1..26 : SubSeq(UpperChars, k, k) = c)]

ToLower(c) == IF c \in UpperSet THEN LowerMap[c] ELSE c

RECURSIVE CharsIn(_, _, _)
\* the characters of str at positions a..b
CharsIn(str, a, b) ==
  IF a > b THEN <<>>
  ELSE IF a = b THEN <<SubSeq(str, a, a)>>
  ELSE CharsIn(str, a, (a + b) \div 2) \o CharsIn(str, (a + b) \div 2 + 1, b)

Chars(str) == CharsIn(str, 1, Len(str))

RECURSIVE LoweredIn(_, _, _)
LoweredIn(cs, a, b) ==
  IF a > b THEN <<>>
  ELSE IF a = b THEN <<ToLower(cs[a])>>
  ELSE LoweredIn(cs, a, (a + b) \div 2) \o LoweredIn(cs, (a + b) \div 2 + 1, b)

Lowered(cs) == LoweredIn(cs, 1, Len(cs))

RECURSIVE PositionsIn(_, _, _, _)
\* the ascending positions in a..b at which character ch occurs in cs
PositionsIn(cs, ch, a, b) ==
  IF a > b THEN <<>>
  ELSE IF a = b THEN (IF cs[a] = ch THEN <<a>> ELSE <<>>)
  ELSE PositionsIn(cs, ch, a, (a + b) \div 2)
       \o PositionsIn(cs, ch, (a + b) \div 2 + 1, b)

TextOf(str, cs) ==
  [s |-> str, c |-> cs, l |-> Lowered(cs),
   lt |-> PositionsIn(cs, "<", 1, Len(cs)),
   gt |-> PositionsIn(cs, ">", 1, Len(cs)),
   qt |-> PositionsIn(cs, "\"", 1, Len(cs))]

Text(str) == TextOf(str, Chars(str))

\* the substring of text t from position a to position b
SubText(t, a, b) == TextOf(SubSeq(t.s, a, b), SubSeq(t.c, a, b))

Min(S) == CHOOSE x \in S : \A y \in S : x <= y

Max(S) == CHOOSE x \in S : \A y \in S : y <= x

\* the first element >= from of the ascending sequence ps, 0 if none
FirstFrom(ps, from) ==
  LET below == Cardinality({k \in 1..Len(ps) : ps[k] < from})
  IN IF below = Len(ps) THEN 0 ELSE ps[below + 1]

\* first position >= from at which the mark ch occurs in text t, 0 if none
IndexOfChar(t, ch, from) ==
  FirstFrom(IF ch = "<" THEN t.lt ELSE IF ch = ">" THEN t.gt ELSE t.qt, from)

Digits == {"0", "1", "2", "3", "4", "5", "6", "7", "8", "9"}

WhiteSpace == {" ", "\t", "\n", "\r"}

\* the characters lit occur in the characters cs at position i
StartsWithAt(cs, i, lit) ==
  /\ i >= 1
  /\ i + Len(lit) - 1 <= Len(cs)
  /\ \A k \in 1..Len(lit) : cs[i + k - 1] = lit[k]

RECURSIVE IndexOf(_, _, _)
\* first position >= from at which the characters lit, which begin with
\* '<', occur in text t, 0 if none
IndexOf(t, lit, from) ==
  LET i == IndexOfChar(t, "<", from)
  IN IF i = 0 THEN 0
     ELSE IF StartsWithAt(t.c, i, lit) THEN i
     ELSE IndexOf(t, lit, i + 1)

\* the string lit occurs in the string str
Contains(str, lit) ==
  LET cs == Chars(str)
      ls == Chars(lit)
  IN \E i \in 1..Len(cs) : StartsWithAt(cs, i, ls)

RECURSIVE SkipSpace(_, _, _)
\* first position in a..b of cs that holds no white space, b + 1 if none
SkipSpace(cs, a, b) ==
  IF a <= b /\ cs[a] \in WhiteSpace THEN SkipSpace(cs, a + 1, b) ELSE a

RECURSIVE SkipSpaceBack(_, _, _)
\* last position in a..b of cs that holds no white space, a - 1 if none
SkipSpaceBack(cs, a, b) ==
  IF a <= b /\ cs[b] \in WhiteSpace THEN SkipSpaceBack(cs, a, b - 1) ELSE b

\* String.prototype.trim applied to the span <<a, b>> of text t
TrimSpan(t, a, b) ==
  LET a2 == SkipSpace(t.c, a, b)
  IN SubSeq(t.s, a2, SkipSpaceBack(t.c, a2, b))

(***************************************************************************)
(* extractTag and extractTagAttribute                                      *)
(***************************************************************************)
RECURSIVE DigitRunEnd(_, _)
\* position of the last digit of the run of digits that starts at i
\* (i - 1 when there is no digit at i)
DigitRunEnd(cs, i) ==
  IF i <= Len(cs) /\ cs[i] \in Digits THEN DigitRunEnd(cs, i + 1) ELSE i - 1

\* (?:ns\d+:) at position i under the 'i' flag: the position after the
\* colon, 0 when the group does not match there
NsPrefixEnd(t, i) ==
  IF StartsWithAt(t.l, i, <<"n", "s">>)
  THEN LET e == DigitRunEnd(t.c, i + 2)
       IN IF e >= i + 2 /\ e + 1 <= Len(t.c) /\ t.c[e + 1] = ":"
          THEN e + 2 ELSE 0
  ELSE 0

\* the first of two match results that is a match
OrElse(m1, m2) == IF m1 # <<>> THEN m1 ELSE m2

\* >([^<]*)< with '>' at position gt and the next '<' at position lt
TextSpan(gt, lt) == IF lt = 0 THEN <<>> ELSE <<gt + 1, lt - 1>>

\* [^>]*>([^<]*)< after the tag name, the next '>' at position gt
TagTextAfter(t, gt) ==
  IF gt = 0 THEN <<>> ELSE TextSpan(gt, IndexOfChar(t, "<", gt + 1))

\* tagName[^>]*>([^<]*)< with tagName starting at position p: the span of
\* the capture, <<>> when there is no match
TagTextFrom(t, p, tag) ==
  IF p # 0 /\ StartsWithAt(t.l, p, tag)
  THEN TagTextAfter(t, IndexOfChar(t, ">", p + Len(tag)))
  ELSE <<>>

\* one attempt of <(?:ns\d+:)?tagName[^>]*>([^<]*)< (withNs) or of
\* <tagName[^>]*>([^<]*)< at position i; the optional group is greedy, so
\* the prefixed alternative is tried before the bare one
TagTextAt(t, i, tag, withNs) ==
  OrElse(IF withNs THEN TagTextFrom(t, NsPrefixEnd(t, i + 1), tag) ELSE <<>>,
         TagTextFrom(t, i + 1, tag))

RECURSIVE MatchTagText(_, _, _, _)
\* the attempts at the '<' at position i and at the positions after it
MatchTagTextAt(t, i, tag, withNs) ==
  IF i = 0 THEN <<>>
  ELSE OrElse(TagTextAt(t, i, tag, withNs),
              MatchTagText(t, i + 1, tag, withNs))

\* xml.match(regex): the attempt at the leftmost position >= from that
\* succeeds; an attempt can only succeed at a '<'
MatchTagText(t, from, tag, withNs) ==
  MatchTagTextAt(t, IndexOfChar(t, "<", from), tag, withNs)

\* match ? match[1].trim() : null
TrimmedCapture(xml, match) ==
  IF match # <<>> THEN Some(TrimSpan(xml, match[1], match[2])) ELSE Null

\* the two regexes of extractTag, for the lowered tag name ltag
MatchEitherForm(xml, ltag) ==
  OrElse(MatchTagText(xml, 1, ltag, TRUE), MatchTagText(xml, 1, ltag, FALSE))

\* extractTag(xml, tagName), xml a text and tagName a string
extractTag(xml, tag) ==
  TrimmedCapture(xml, MatchEitherForm(xml, Lowered(Chars(tag))))

\* attrName="([^"]*)" at position r: the span of the capture
AttrValueHere(t, r, lit) ==
  IF StartsWithAt(t.l, r, lit)
  THEN TextSpan(r + Len(lit) - 1, IndexOfChar(t, "\"", r + Len(lit)))
  ELSE <<>>

RECURSIVE AttrValueBack(_, _, _, _)
\* [^>]*attrName="([^"]*)" after the tag name: [^>]* is greedy, so the
\* attempt backtracks from the longest run of non-'>' characters; r is the
\* candidate position of attrName, lo the first position after the tag name
AttrValueBack(t, r, lo, lit) ==
  IF r < lo THEN <<>>
  ELSE OrElse(AttrValueHere(t, r, lit), AttrValueBack(t, r - 1, lo, lit))

\* the attempts after the tag name, the next '>' at position gt
AttrValueBefore(t, gt, lo, lit) ==
  AttrValueBack(t, IF gt = 0 THEN Len(t.c) + 1 ELSE gt, lo, lit)

AttrValueFrom(t, p, tag, lit) ==
  IF p # 0 /\ StartsWithAt(t.l, p, tag)
  THEN AttrValueBefore(t, IndexOfChar(t, ">", p + Len(tag)), p + Len(tag), lit)
  ELSE <<>>

AttrValueAt(t, i, tag, lit) ==
  OrElse(AttrValueFrom(t, NsPrefixEnd(t, i + 1), tag, lit),
         AttrValueFrom(t, i + 1, tag, lit))

RECURSIVE MatchAttrValue(_, _, _, _)
MatchAttrValueAt(t, i, tag, lit) ==
  IF i = 0 THEN <<>>
  ELSE OrElse(AttrValueAt(t, i, tag, lit), MatchAttrValue(t, i + 1, tag, lit))

MatchAttrValue(t, from, tag, lit) ==
  MatchAttrValueAt(t, IndexOfChar(t, "<", from), tag, lit)

\* extractTagAttribute(xml, tagName, attrName), xml a text
extractTagAttribute(xml, tag, attr) ==
  TrimmedCapture(xml, MatchAttrValue(xml, 1, Lowered(Chars(tag)),
                                     Lowered(Chars(attr \o "=\""))))

(***************************************************************************)
(* Numbers: parseFloat                                                     *)
(*                                                                         *)
(* A Number is NaN, an infinity, or sign * m * 10^e with m a natural not   *)
(* divisible by 10 (m = 0 is written sign 1, e 0), so that equal numbers   *)
(* are equal records.                                                      *)
(***************************************************************************)
NaN == [kind |-> "nan", sign |-> 1, m |-> 0, e |-> 0]

Infinity(sign) == [kind |-> "inf", sign |-> sign, m |-> 0, e |-> 0]

RECURSIVE Normal(_, _, _)
Normal(sign, m, e) ==
  IF m = 0 THEN [kind |-> "num", sign |-> 1, m |-> 0, e |-> 0]
  ELSE IF m % 10 = 0 THEN Normal(sign, m \div 10, e + 1)
  ELSE [kind |-> "num", sign |-> sign, m |-> m, e |-> e]

Zero == Normal(1, 0, 0)

DigitChars == Chars("0123456789")

DigitVal(ch) == (CHOOSE k \in 1..10 : DigitChars[k] = ch) - 1

RECURSIVE DigitsVal(_, _, _)
\* the value of the digits at positions a..b of cs (0 for an empty range)
DigitsVal(cs, a, b) ==
  IF a > b THEN 0 ELSE 10 * DigitsVal(cs, a, b - 1) + DigitVal(cs[b])

CharAt(cs, i) == IF i >= 1 /\ i <= Len(cs) THEN cs[i] ELSE ""

\* the exponent part of a StrDecimalLiteral whose mantissa ends at mantEnd:
\* e or E, an optional sign and digits; 0 when there is none
ExponentPart(cs, mantEnd) ==
  LET expStart == IF CharAt(cs, mantEnd + 2) \in {"+", "-"}
                  THEN mantEnd + 3 ELSE mantEnd + 2
  IN IF ToLower(CharAt(cs, mantEnd + 1)) = "e"
        /\ DigitRunEnd(cs, expStart) >= expStart
     THEN (IF CharAt(cs, mantEnd + 2) = "-" THEN -1 ELSE 1)
          * DigitsVal(cs, expStart, DigitRunEnd(cs, expStart))
     ELSE 0

\* the value of the decimal digits at p..intEnd, the fraction digits at
\* intEnd + 2..fracEnd (when hasFrac) and the exponent part after them
Decimal(cs, sign, p, intEnd, hasFrac, fracEnd, mantEnd) ==
  IF hasFrac
  THEN Normal(sign,
              DigitsVal(cs, p, intEnd) * 10 ^ (fracEnd - (intEnd + 1))
              + DigitsVal(cs, intEnd + 2, fracEnd),
              ExponentPart(cs, mantEnd) - (fracEnd - (intEnd + 1)))
  ELSE Normal(sign, DigitsVal(cs, p, intEnd), ExponentPart(cs, mantEnd))

\* the StrDecimalLiteral at position p, the integer digits ending at intEnd
\* and the digits after a '.' ending at fracEnd
DecimalLiteral(cs, sign, p, intEnd, hasDot, fracEnd) ==
  IF intEnd < p /\ ~(hasDot /\ fracEnd >= intEnd + 2) THEN NaN
  ELSE Decimal(cs, sign, p, intEnd, hasDot /\ fracEnd >= intEnd + 2, fracEnd,
               IF hasDot /\ fracEnd >= intEnd + 2 THEN fracEnd
               ELSE IF intEnd >= p /\ hasDot THEN intEnd + 1 ELSE intEnd)

\* the literal after the optional sign, at position p
UnsignedLiteral(cs, sign, p, intEnd) ==
  IF StartsWithAt(cs, p, Chars("Infinity")) THEN Infinity(sign)
  ELSE DecimalLiteral(cs, sign, p, intEnd, CharAt(cs, intEnd + 1) = ".",
                      IF CharAt(cs, intEnd + 1) = "."
                      THEN DigitRunEnd(cs, intEnd + 2) ELSE intEnd)

SignedLiteral(cs, start, p) ==
  UnsignedLiteral(cs, IF CharAt(cs, start) = "-" THEN -1 ELSE 1, p,
                  DigitRunEnd(cs, p))

TrimmedLiteral(cs, start) ==
  SignedLiteral(cs, start,
                IF CharAt(cs, start) \in {"+", "-"} THEN start + 1 ELSE start)

\* parseFloat(string): the value of the longest prefix of the left-trimmed
\* string that is a StrDecimalLiteral, NaN when no prefix is one
parseFloat(str) ==
  TrimmedLiteral(Chars(str), SkipSpace(Chars(str), 1, Len(str)))

\* x > 0 on Numbers (false for NaN)
GreaterThanZero(x) ==
  \/ x.kind = "num" /\ x.sign = 1 /\ x.m > 0
  \/ x.kind = "inf" /\ x.sign = 1

(***************************************************************************)
(* parseAtomFeed                                                           *)
(***************************************************************************)
\* truthiness of a string-or-null value
Truthy(v) == v # Null /\ v[1] # ""

\* a ?? b
NullishOr(a, b) == IF a # Null THEN a ELSE b

\* a || b
Or(a, b) == IF Truthy(a) THEN a ELSE b

\* the contract object literal of the strict version
ContractStrict(entryContent) ==
  [ piid |-> extractTag(entryContent, "PIID"),
    agency |-> extractTag(entryContent, "agencyID"),
    agencyName |-> extractTagAttribute(entryContent, "agencyID", "name"),
    vendorName |-> Or(extractTag(entryContent, "UEI_NAME"),
                      extractTag(entryContent, "vendorName")),
    vendorUEI |-> extractTag(entryContent, "VENDOR_UEI"),
    parentCompany |-> extractTag(entryContent, "ULTIMATE_UEI_NAME"),
    obligatedAmount |->
      parseFloat(Or(extractTag(entryContent, "obligatedAmount"), Some("0"))[1]),
    baseAndAllOptions |->
      parseFloat(Or(extractTag(entryContent, "baseAndAllOptionsValue"),
                    Some("0"))[1]),
    signedDate |-> extractTag(entryContent, "signedDate"),
    startDate |-> extractTag(entryContent, "effectiveDate"),
    completionDate |-> extractTag(entryContent, "currentCompletionDate"),
    naicsCode |-> Or(extractTag(entryContent, "NAICS_CODE"),
                     extractTag(entryContent, "principalNAICSCode")),
    naicsDescription |->
      Or(extractTag(entryContent, "NAICS_DESCRIPTION"),
         extractTag(entryContent, "principalNAICSDescription")),
    pscCode |-> Or(extractTag(entryContent, "PRODUCT_OR_SERVICE_CODE"),
                   extractTag(entryContent, "productOrServiceCode")),
    setAside |-> extractTag(entryContent, "typeOfSetAside"),
    description |->
      extractTag(entryContent, "descriptionOfContractRequirement") ]

\* the contract object literal of the lenient version
ContractLenient(entryContent) ==
  [ piid |-> extractTag(entryContent, "PIID"),
    agency |-> extractTag(entryContent, "agencyID"),
    agencyName |-> extractTagAttribute(entryContent, "agencyID", "name"),
    vendorName |-> Or(Or(extractTag(entryContent, "UEI_NAME"),
                         extractTag(entryContent, "vendorName")),
                      extractTag(entryContent, "UEILegalBusinessName")),
    vendorUEI |-> extractTag(entryContent, "VENDOR_UEI"),
    parentCompany |-> Or(extractTag(entryContent, "ULTIMATE_UEI_NAME"),
                         extractTag(entryContent, "ultimateParentUEIName")),
    obligatedAmount |->
      parseFloat(Or(extractTag(entryContent, "obligatedAmount"), Some("0"))[1]),
    baseAndAllOptions |->
      parseFloat(Or(extractTag(entryContent, "baseAndAllOptionsValue"),
                    Some("0"))[1]),
    signedDate |-> extractTag(entryContent, "signedDate"),
    startDate |-> extractTag(entryContent, "effectiveDate"),
    completionDate |-> Or(extractTag(entryContent, "currentCompletionDate"),
                          extractTag(entryContent, "ultimateCompletionDate")),
    naicsCode |-> Or(extractTag(entryContent, "principalNAICSCode"),
                     extractTag(entryContent, "NAICS_CODE")),
    naicsDescription |->
      Or(extractTag(entryContent, "principalNAICSDescription"),
         extractTag(entryContent, "NAICS_DESCRIPTION")),
    pscCode |-> Or(extractTag(entryContent, "productOrServiceCode"),
                   extractTag(entryContent, "PRODUCT_OR_SERVICE_CODE")),
    setAside |-> extractTag(entryContent, "typeOfSetAside"),
    description |->
      extractTag(entryContent, "descriptionOfContractRequirement") ]

Contract(v, entryContent) ==
  IF v = "strict" THEN ContractStrict(entryContent)
  ELSE ContractLenient(entryContent)

\* whether the loop body pushes the contract: the strict version pushes
\* every contract, the lenient one only those with meaningful data
KeepContract(v, contract) ==
  IF v = "strict" THEN TRUE
  ELSE \/ Truthy(contract.piid)
       \/ Truthy(contract.vendorName)
       \/ GreaterThanZero(contract.obligatedAmount)

EntryOpen == Chars("<entry>")

EntryClose == Chars("</entry>")

RECURSIVE ExecEntry(_, _)
\* entryRegex.exec(xmlText) with lastIndex = from - 1: the leftmost position
\* i >= from at which <entry>([\s\S]*?)<\/entry> matches, with the position
\* j of the closing marker the lazy group stops at; <<>> when exec returns
\* null
ExecEntry(t, from) ==
  LET i == IndexOf(t, EntryOpen, from)
  IN IF i = 0 THEN <<>>
     ELSE LET j == IndexOf(t, EntryClose, i + Len(EntryOpen))
          IN IF j # 0 THEN <<i, j>> ELSE ExecEntry(t, i + 1)

\* contracts.push(contract), in the lenient version under its test
Push(v, acc, contract) ==
  IF KeepContract(v, contract) THEN Append(acc, contract) ELSE acc

RECURSIVE ParseLoop(_, _, _, _)
\* the body of the while loop for the result match of entryRegex.exec
LoopBody(v, xml, match, acc) ==
  IF match = <<>> THEN acc
  ELSE ParseLoop(v, xml, match[2] + Len(EntryClose),
                 Push(v, acc,
                      Contract(v, SubText(xml, match[1] + Len(EntryOpen),
                                          match[2] - 1))))

\* the while loop of parseAtomFeed over the text xml
ParseLoop(v, xml, from, acc) == LoopBody(v, xml, ExecEntry(xml, from), acc)

\* parseAtomFeed(xmlText) of version v, xmlText a string
parseAtomFeed(v, xmlText_) == ParseLoop(v, Text(xmlText_), 1, <<>>)

(***************************************************************************)
(* Query construction                                                      *)
(***************************************************************************)
ParamKeys ==
  {"naics", "agency", "startDate", "endDate", "setAside", "minValue",
   "maxValue", "keyword"}

NoParams == [k \in ParamKeys |-> Null]

\* the handler is not running (specifications of the pure functions)
HandlerIdle ==
  /\ method = "GET"
  /\ params = NoParams
  /\ today = Null
  /\ query = Null
  /\ reqCount = 0
  /\ upstream = [kind |-> "none", status |-> 0, body |-> "none", left |-> <<>>]
  /\ data = ""
  /\ parseCalls = 0
  /\ error = Null
  /\ response = Null

RECURSIVE Join(_, _)
\* Array.prototype.join
Join(seq, sep) ==
  IF Len(seq) = 0 THEN ""
  ELSE IF Len(seq) = 1 THEN seq[1]
  ELSE seq[1] \o sep \o Join(Tail(seq), sep)

RECURSIVE ReplaceAllIn(_, _, _, _, _)
\* str.replace(/x/g, y) over positions a..b of str, x a single character
ReplaceAllIn(str, x, y, a, b) ==
  IF a > b THEN ""
  ELSE IF a = b THEN (IF SubSeq(str, a, a) = x THEN y ELSE SubSeq(str, a, a))
  ELSE ReplaceAllIn(str, x, y, a, (a + b) \div 2)
       \o ReplaceAllIn(str, x, y, (a + b) \div 2 + 1, b)

\* str.replace('-', '/'): only the first occurrence is replaced
ReplaceFirstHyphen(str) ==
  LET hits == {i \in 1..Len(str) : SubSeq(str, i, i) = "-"}
  IN IF hits = {} THEN str
     ELSE SubSeq(str, 1, Min(hits) - 1) \o "/"
          \o SubSeq(str, Min(hits) + 1, Len(str))

\* str.replace(/-/g, '/')
ReplaceHyphens(str) == ReplaceAllIn(str, "-", "/", 1, Len(str))

\* the conditions array of the strict buildFPDSQuery before the join
ConditionsStrict(p) ==
  (IF Truthy(p.naics)
   THEN <<"PRINCIPAL_NAICS_CODE:\"" \o p.naics[1] \o "\"">> ELSE <<>>)
  \o (IF Truthy(p.agency)
      THEN <<"AGENCY_CODE:\"" \o p.agency[1] \o "\"">> ELSE <<>>)
  \o (IF Truthy(p.startDate) /\ Truthy(p.endDate)
      THEN <<"SIGNED_DATE:[" \o ReplaceHyphens(p.startDate[1]) \o ","
             \o ReplaceHyphens(p.endDate[1]) \o "]">>
      ELSE <<>>)
  \o (IF Truthy(p.setAside)
      THEN <<"SOCIO_ECONOMIC_INDICATORS:\"" \o p.setAside[1] \o "\"">>
      ELSE <<>>)
  \o (IF Truthy(p.minValue) /\ Truthy(p.maxValue)
      THEN <<"OBLIGATED_AMOUNT:[" \o p.minValue[1] \o "," \o p.maxValue[1]
             \o "]">>
      ELSE <<>>)
  \o <<"CONTRACT_TYPE:\"AWARD\"">>

\* the conditions array of the lenient buildFPDSQuery
ConditionsLenient(p) ==
  (IF Truthy(p.naics)
   THEN <<"PRINCIPAL_NAICS_CODE:\"" \o p.naics[1] \o "\"">> ELSE <<>>)
  \o (IF Truthy(p.agency)
      THEN <<"CONTRACTING_AGENCY_ID:\"" \o p.agency[1] \o "\"">> ELSE <<>>)
  \o (IF Truthy(p.startDate) /\ Truthy(p.endDate)
      THEN <<"LAST_MOD_DATE:[" \o ReplaceHyphens(p.startDate[1]) \o ","
             \o ReplaceHyphens(p.endDate[1]) \o "]">>
      ELSE <<>>)

\* buildFPDSQuery(params) of version v
buildFPDSQuery(v, p) ==
  LET conditions == IF v = "strict" THEN ConditionsStrict(p)
                    ELSE ConditionsLenient(p)
  IN IF Len(conditions) > 0 THEN Join(conditions, " ") ELSE "*"

\* Calendar dates are records [y, m, d] with m in 1..12.
IsLeap(y) == (y % 4 = 0 /\ y % 100 # 0) \/ y % 400 = 0

DaysInMonth(y, m) ==
  IF m = 2 THEN (IF IsLeap(y) THEN 29 ELSE 28)
  ELSE IF m \in {4, 6, 9, 11} THEN 30 ELSE 31

\* the date a Date object holds after its year, month (m0, possibly 0) and
\* day are set to y, m0 and d <= 31: a month below 1 borrows from the year,
\* a day beyond the end of the month carries into the next month
MakeDate(y, m0, d) ==
  LET y2 == IF m0 < 1 THEN y - 1 ELSE y
      m2 == IF m0 < 1 THEN m0 + 12 ELSE m0
      dim == DaysInMonth(y2, m2)
  IN IF d <= dim THEN [y |-> y2, m |-> m2, d |-> d]
     ELSE IF m2 = 12 THEN [y |-> y2 + 1, m |-> 1, d |-> d - dim]
     ELSE [y |-> y2, m |-> m2 + 1, d |-> d - dim]

\* String(n).padStart(2, '0')
PadStart2(n) == IF n < 10 THEN "0" \o ToString(n) ELSE ToString(n)

\* formatDate(date) of the lenient handler: MM/DD/YYYY
formatDate(date) ==
  PadStart2(date.m) \o "/" \o PadStart2(date.d) \o "/" \o ToString(date.y)

\* the query the lenient handler builds inline, new Date() being now
InlineQuery(p, now) ==
  IF Truthy(p.naics)
  THEN LET twoYearsAgo == MakeDate(now.y - 2, now.m, now.d)
       IN "PRINCIPAL_NAICS_CODE:\"" \o p.naics[1] \o "\""
          \o " LAST_MOD_DATE:[" \o formatDate(twoYearsAgo) \o ","
          \o formatDate(now) \o "]"
  ELSE LET lastMonth == MakeDate(now.y, now.m - 1, now.d)
       IN "LAST_MOD_DATE:[" \o formatDate(lastMonth) \o ","
          \o formatDate(now) \o "]"

(***************************************************************************)
(* exports.handler                                                         *)
(*                                                                         *)
(* pc: "start" -> "request" (query built) -> "awaiting" (request issued)   *)
(*     -> "receiving" (response headers seen) -> "received" (body read)    *)
(*     -> "parsed" -> "returned"; an exception thrown inside the try block *)
(*     leads to "caught" -> "returned".                                    *)
(* The upstream is an oracle fixed when the request is issued (no answer,  *)
(* transport error, or a response) and when the response headers arrive    *)
(* (status; body complete, stalled for ever, or aborted).                  *)
(***************************************************************************)
MaxRequests == 2

ParamValue ==
  [ naics |-> "541511", agency |-> "9700", startDate |-> "2024-01-15",
    endDate |-> "2024-02-15", setAside |-> "SBA", minValue |-> "1000",
    maxValue |-> "50000", keyword |-> "zzz" ]

\* every key absent or present with its value; naics may also be empty
ParamSets ==
  LET Chosen(K) == [k \in ParamKeys |->
                      IF k \in K THEN Some(ParamValue[k]) ELSE Null]
  IN {Chosen(K) : K \in SUBSET ParamKeys}
     \cup {[Chosen(K) EXCEPT !.naics = Some("")] : K \in SUBSET ParamKeys}

Todays ==
  { [y |-> 2024, m |-> 3, d |-> 31], [y |-> 2024, m |-> 2, d |-> 29],
    [y |-> 2025, m |-> 1, d |-> 15] }

Statuses == {200, 204, 404}

StatusText == [c \in Statuses |->
                 IF c = 200 THEN "OK"
                 ELSE IF c = 204 THEN "No Content" ELSE "Not Found"]

\* response bodies, as the chunks they arrive in
Feeds ==
  { <<"<feed></feed>">>,
    <<"<feed><entry><PI", "ID>ABC123</PIID></entry><entry></entry></feed>">> }

InitHandler ==
  /\ variant \in {"strict", "lenient"}
  /\ method \in {"GET", "OPTIONS"}
  /\ params \in ParamSets
  /\ pc = "start"
  /\ today = Null
  /\ query = Null
  /\ reqCount = 0
  /\ upstream = [kind |-> "none", status |-> 0, body |-> "none", left |-> <<>>]
  /\ data = ""
  /\ xmlText = ""
  /\ parseCalls = 0
  /\ contracts = <<>>
  /\ error = Null
  /\ response = Null
  /\ nPieces = 0
  /\ tagName = ""
  /\ extracted = Null
  /\ extractedAttr = Null
  /\ lib = "layout"
  /\ inEntry = FALSE
  /\ nEntries = 0
  /\ nFields = 0

idleVars == <<variant, method, params, nPieces, tagName, extracted,
              extractedAttr, lib, inEntry, nEntries, nFields>>

\* where control goes when an exception is thrown inside the try block and
\* the handler calls the upstream again instead of reporting
RetryOnThrow == "request"

\* where control goes when an exception is thrown inside the try block
OnThrow == "caught"

\* a catch block that answers 500 in both versions
ErrorStatusAlways500(v) == 500

\* statusCode of the catch block
ErrorStatus(v) == IF v = "strict" THEN 500 ELSE 200

\* if (event.httpMethod === 'OPTIONS') return { statusCode: 200, ... }
Preflight ==
  /\ pc = "start"
  /\ method = "OPTIONS"
  /\ response' = [statusCode |-> 200, body |-> ""]
  /\ pc' = "returned"
  /\ UNCHANGED <<idleVars, today, query, reqCount, upstream, data, xmlText,
                 parseCalls, contracts, error>>

\* the query construction of the try block; the lenient handler reads the
\* clock
BuildQuery(now) ==
  /\ pc = "start"
  /\ method # "OPTIONS"
  /\ IF variant = "strict"
     THEN /\ now = Null
          /\ query' = buildFPDSQuery("strict", params)
     ELSE /\ now # Null
          /\ query' = InlineQuery(params, now)
  /\ today' = now
  /\ pc' = "request"
  /\ UNCHANGED <<idleVars, reqCount, upstream, data, xmlText, parseCalls,
                 contracts, error, response>>

\* fetch(fpdsUrl, ...) / https.get(fpdsUrl, ...): the request goes out
IssueRequest(kind) ==
  /\ pc = "request"
  /\ reqCount < MaxRequests
  /\ reqCount' = reqCount + 1
  /\ upstream' = [kind |-> kind, status |-> 0, body |-> "none", left |-> <<>>]
  /\ data' = ""
  /\ pc' = "awaiting"
  /\ UNCHANGED <<idleVars, today, query, xmlText, parseCalls, contracts,
                 error, response>>

\* the call itself throws (fetch undefined in the runtime, https.get
\* throwing inside the promise executor): no request goes out
RequestThrows ==
  /\ pc = "request"
  /\ error' = Some(IF variant = "strict" THEN "fetch is not defined"
                   ELSE "")
  /\ pc' = OnThrow
  /\ UNCHANGED <<idleVars, today, query, reqCount, upstream, data, xmlText,
                 parseCalls, contracts, response>>

\* the request fails before a response: fetch rejects / request 'error'
TransportError ==
  /\ pc = "awaiting"
  /\ upstream.kind = "transportError"
  /\ error' = Some(IF variant = "strict" THEN "fetch failed"
                   ELSE "connect ECONNREFUSED")
  /\ pc' = OnThrow
  /\ UNCHANGED <<idleVars, today, query, reqCount, upstream, data, xmlText,
                 parseCalls, contracts, response>>

\* the response headers arrive: fetch resolves and the strict handler tests
\* response.ok; the lenient handler's callback attaches its listeners
ResponseHeaders(status, body, chunks) ==
  /\ pc = "awaiting"
  /\ upstream.kind = "responds"
  /\ upstream' = [kind |-> "responds", status |-> status, body |-> body,
                  left |-> chunks]
  /\ IF variant = "strict" /\ ~(status >= 200 /\ status <= 299)
     THEN /\ error' = Some("FPDS API error: " \o ToString(status) \o " "
                           \o StatusText[status])
          /\ pc' = OnThrow
     ELSE /\ error' = error
          /\ pc' = "receiving"
  /\ UNCHANGED <<idleVars, today, query, reqCount, data, xmlText, parseCalls,
                 contracts, response>>

\* response.on('data', ...): data += chunk (response.text() collects the
\* chunks the same way)
DataChunk ==
  /\ pc = "receiving"
  /\ upstream.left # <<>>
  /\ data' = data \o Head(upstream.left)
  /\ upstream' = [upstream EXCEPT !.left = Tail(upstream.left)]
  /\ UNCHANGED <<idleVars, pc, today, query, reqCount, xmlText, parseCalls,
                 contracts, error, response>>

\* response.on('end', ...) / response.text() resolves
ResponseEnd ==
  /\ pc = "receiving"
  /\ upstream.body = "complete"
  /\ upstream.left = <<>>
  /\ IF variant = "strict" \/ upstream.status = 200
     THEN /\ xmlText' = data
          /\ pc' = "received"
          /\ error' = error
     ELSE /\ xmlText' = xmlText
          /\ error' = Some("FPDS returned status " \o ToString(upstream.status))
          /\ pc' = OnThrow
  /\ UNCHANGED <<idleVars, today, query, reqCount, upstream, data, parseCalls,
                 contracts, response>>

\* the connection breaks before the body ends, with a socket error:
\* response.text() rejects / the request emits 'error'
BodyAbortError ==
  /\ pc = "receiving"
  /\ upstream.body = "abort"
  /\ error' = Some(IF variant = "strict" THEN "terminated" ELSE "read ECONNRESET")
  /\ pc' = OnThrow
  /\ UNCHANGED <<idleVars, today, query, reqCount, upstream, data, xmlText,
                 parseCalls, contracts, response>>

\* the connection is closed before the body ends, without a socket error:
\* response.text() rejects; the lenient handler listens to neither
\* 'aborted' nor 'close', so its promise stays pending
BodyAbortClose ==
  /\ pc = "receiving"
  /\ upstream.body = "abort"
  /\ IF variant = "strict"
     THEN /\ error' = Some("terminated")
          /\ pc' = OnThrow
     ELSE /\ error' = error
          /\ pc' = "pending"
  /\ UNCHANGED <<idleVars, today, query, reqCount, upstream, data, xmlText,
                 parseCalls, contracts, response>>

\* the global fetch of the runtime gives up by its built-in header and body
\* timeouts; the source sets no timeout and https.get has none
RuntimeTimeout ==
  /\ variant = "strict"
  /\ \/ pc = "awaiting" /\ upstream.kind = "noAnswer"
     \/ pc = "receiving" /\ upstream.body = "stall"
  /\ error' = Some("fetch failed")
  /\ pc' = OnThrow
  /\ UNCHANGED <<idleVars, today, query, reqCount, upstream, data, xmlText,
                 parseCalls, contracts, response>>

\* const parsedData = parseAtomFeed(xmlText)
ParseStep ==
  /\ pc = "received"
  /\ contracts' = parseAtomFeed(variant, xmlText)
  /\ parseCalls' = parseCalls + 1
  /\ pc' = "parsed"
  /\ UNCHANGED <<idleVars, today, query, reqCount, upstream, data, xmlText,
                 error, response>>

\* return { statusCode: 200, headers, body: JSON.stringify({success: true...
ReturnSuccess ==
  /\ pc = "parsed"
  /\ response' =
       [statusCode |-> 200,
        body |-> [success |-> TRUE, count |-> Len(contracts),
                  data |-> contracts, error |-> Null]]
  /\ pc' = "returned"
  /\ UNCHANGED <<idleVars, today, query, reqCount, upstream, data, xmlText,
                 parseCalls, contracts, error>>

\* the catch block
ReturnError ==
  /\ pc = "caught"
  /\ response' =
       [statusCode |-> ErrorStatus(variant),
        body |-> [success |-> FALSE, count |-> 0, data |-> <<>>,
                  error |-> IF variant = "lenient" /\ ~Truthy(error)
                            THEN Some("Unknown error occurred") ELSE error]]
  /\ pc' = "returned"
  /\ UNCHANGED <<idleVars, today, query, reqCount, upstream, data, xmlText,
                 parseCalls, contracts, error>>

\* the steps the handler and a live upstream take
Progress ==
  \/ Preflight
  \/ \E now \in Todays \cup {Null} : BuildQuery(now)
  \/ \E kind \in {"noAnswer", "transportError", "responds"} : IssueRequest(kind)
  \/ RequestThrows
  \/ TransportError
  \/ \E status \in Statuses, body \in {"complete", "stall", "abort"},
        chunks \in Feeds : ResponseHeaders(status, body, chunks)
  \/ DataChunk
  \/ ResponseEnd
  \/ BodyAbortError
  \/ BodyAbortClose
  \/ ParseStep
  \/ ReturnSuccess
  \/ ReturnError

NextHandler == Progress \/ RuntimeTimeout

Spec == InitHandler /\ [][NextHandler]_vars

\* every step that is possible is eventually taken: the handler runs on, a
\* live upstream keeps sending, and the built-in timeouts of fetch fire
FairSpec == Spec /\ WF_vars(NextHandler)

(***************************************************************************)
(* Properties of the handler                                               *)
(***************************************************************************)
\* the upstream answered with a success status and the whole body arrived
UpstreamSucceeded ==
  /\ upstream.kind = "responds"
  /\ upstream.status >= 200 /\ upstream.status <= 299
  /\ upstream.body = "complete"
  /\ upstream.left = <<>>

Returned == pc = "returned" /\ method = "GET"

\* C3: whatever the upstream outcome, a GET invocation that returns returns
\* an envelope and never rejects; on a failed upstream the envelope has
\* success:false and an error string, with status 200 in the lenient
\* version and 500 in the strict one; success:true is returned only when
\* the upstream request succeeded.
C3_FailuresReportedInEnvelope ==
  /\ pc # "rejected"
  /\ Returned =>
       /\ response.body.success \in BOOLEAN
       /\ ~UpstreamSucceeded =>
            /\ response.body.success = FALSE
            /\ response.body.error # Null
            /\ response.statusCode = IF variant = "lenient" THEN 200 ELSE 500
       /\ response.body.success =>
            /\ UpstreamSucceeded
            /\ response.statusCode = 200

\* C3 witness: the lenient handler has answered an upstream 404 with
\* status 200 and success:false
C3_Witness ==
  /\ Returned
  /\ variant = "lenient"
  /\ upstream.kind = "responds"
  /\ upstream.status = 404
  /\ response.statusCode = 200
  /\ response.body.success = FALSE

\* C4: a GET invocation issues at most one outbound request and never a
\* second one; parseAtomFeed is called only after that request completed
\* successfully, and never when it failed or timed out; an OPTIONS
\* invocation issues no request.
C4_OneRequestParseAfterSuccess ==
  /\ reqCount <= 1
  /\ parseCalls <= 1
  /\ parseCalls > 0 => reqCount = 1 /\ UpstreamSucceeded
  /\ method = "OPTIONS" => reqCount = 0 /\ parseCalls = 0

\* C4 witness: the handler has answered after a transport error, with one
\* request issued and the parser not called
C4_Witness ==
  /\ Returned
  /\ upstream.kind = "transportError"
  /\ reqCount = 1
  /\ parseCalls = 0

\* C5 as stated: every GET invocation eventually returns a response
\* envelope, whatever the upstream does.
C5_EveryInvocationReturns ==
  (method = "GET" /\ pc = "start") ~> (pc = "returned")

\* number of occurrences of the string lit in the string str
Count(str, lit) ==
  LET cs == Chars(str)
      ls == Chars(lit)
  IN Cardinality({i \in 1..Len(cs) : StartsWithAt(cs, i, ls)})

QueryBuilt == method = "GET" /\ pc # "start"

RangeSupplied == params.startDate # Null /\ params.endDate # Null

HasDateRangeClause(q) ==
  Contains(q, "LAST_MOD_DATE:[") \/ Contains(q, "SIGNED_DATE:[")

\* C6 as stated: the query expression sent upstream is never empty, and
\* when no date range is supplied it contains a default date-range clause
\* FIELD:[start,end].
C6_NeverEmptyNeverUnbounded ==
  QueryBuilt =>
    /\ query # ""
    /\ ~RangeSupplied => HasDateRangeClause(query)

\* C7 as stated: the query expression sent upstream contains exactly one
\* clause for each recognized filter key that is present, carrying the
\* supplied value, and no clause derived from an unrecognized key.
C7_OneClausePerRecognizedKey ==
  QueryBuilt =>
    /\ \A k \in {"naics", "agency", "setAside"} :
         Truthy(params[k]) => Count(query, ":\"" \o params[k][1] \o "\"") = 1
    /\ Truthy(params.startDate) /\ Truthy(params.endDate) =>
         Count(query, ":[" \o params.startDate[1] \o "," \o params.endDate[1]
                      \o "]")
         + Count(query, ":[" \o ReplaceHyphens(params.startDate[1]) \o ","
                        \o ReplaceHyphens(params.endDate[1]) \o "]") = 1
    /\ Truthy(params.minValue) /\ Truthy(params.maxValue) =>
         Count(query, ":[" \o params.minValue[1] \o "," \o params.maxValue[1]
                      \o "]") = 1
    /\ Truthy(params.keyword) => ~Contains(query, params.keyword[1])

(***************************************************************************)
(* Feed documents, then parsed                                             *)
(*                                                                         *)
(* The "layout" library builds a document from entry markers and elements  *)
(* in any order (nested, unclosed and stray markers included); the other   *)
(* libraries build one entry holding up to MaxFields of their elements.    *)
(***************************************************************************)
MaxPieces == 5

MaxFields == 2

\* the pieces a document is built from, by library
Elements ==
  [ layout |->
      { "<entry>", "</entry>", "<PIID>ABC123</PIID>",
        "<signedDate>2024-01-15</signedDate>" },
    content |->
      { "<PIID>ABC123</PIID>", "<ns1:PIID></ns1:PIID>",
        "<vendorName>ACME</vendorName>",
        "<obligatedAmount>1500.50</obligatedAmount>",
        "<obligatedAmount>0</obligatedAmount>",
        "<obligatedAmount>-5</obligatedAmount>",
        "<signedDate>2024-01-15</signedDate>" },
    numeric |->
      { "<PIID>A1</PIID>",
        "<obligatedAmount>abc</obligatedAmount>",
        "<obligatedAmount> 7.25 </obligatedAmount>",
        "<obligatedAmount>12abc</obligatedAmount>",
        "<baseAndAllOptionsValue>-3e2</baseAndAllOptionsValue>",
        "<baseAndAllOptionsValue>$100</baseAndAllOptionsValue>",
        "<baseAndAllOptionsValue></baseAndAllOptionsValue>" },
    vendor |->
      { "<PIID>A1</PIID>",
        "<UEI_NAME>UN</UEI_NAME>", "<UEI_NAME> </UEI_NAME>",
        "<vendorName>VN</vendorName>", "<vendorName></vendorName>",
        "<ns1:UEILegalBusinessName>LB</ns1:UEILegalBusinessName>" },
    naics |->
      { "<PIID>A1</PIID>",
        "<principalNAICSCode>541511</principalNAICSCode>",
        "<NAICS_CODE>541512</NAICS_CODE>",
        "<principalNAICSCode/>",
        "<principalNAICSDescription>PD</principalNAICSDescription>",
        "<NAICS_DESCRIPTION>ND</NAICS_DESCRIPTION>" },
    other |->
      { "<PIID>A1</PIID>",
        "<ULTIMATE_UEI_NAME>UP</ULTIMATE_UEI_NAME>",
        "<ultimateParentUEIName>up</ultimateParentUEIName>",
        "<currentCompletionDate></currentCompletionDate>",
        "<ultimateCompletionDate>2025-12-31</ultimateCompletionDate>",
        "<productOrServiceCode>D302</productOrServiceCode>",
        "<PRODUCT_OR_SERVICE_CODE>R499</PRODUCT_OR_SERVICE_CODE>" } ]

Libs == DOMAIN Elements

InitParse ==
  /\ variant \in {"strict", "lenient"}
  /\ pc = "build"
  /\ xmlText = ""
  /\ lib \in Libs
  /\ inEntry = FALSE
  /\ nEntries = 0
  /\ nFields = 0
  /\ contracts = <<>>
  /\ nPieces = 0
  /\ tagName = ""
  /\ extracted = Null
  /\ extractedAttr = Null
  /\ HandlerIdle

AppendPiece(p) ==
  /\ pc = "build"
  /\ lib = "layout"
  /\ nPieces < MaxPieces
  /\ xmlText' = xmlText \o p
  /\ nPieces' = nPieces + 1
  /\ UNCHANGED <<variant, pc, feedVars, contracts, tagName, extracted,
                 extractedAttr, handlerVars>>

OpenEntry ==
  /\ pc = "build"
  /\ lib # "layout"
  /\ nEntries = 0
  /\ xmlText' = xmlText \o "<entry>"
  /\ inEntry' = TRUE
  /\ nEntries' = 1
  /\ UNCHANGED <<variant, pc, lib, nFields, contracts, extractVars,
                 handlerVars>>

AddElement(el) ==
  /\ pc = "build"
  /\ inEntry
  /\ nFields < MaxFields
  /\ xmlText' = xmlText \o el
  /\ nFields' = nFields + 1
  /\ UNCHANGED <<variant, pc, lib, inEntry, nEntries, contracts, extractVars,
                 handlerVars>>

CloseEntry ==
  /\ pc = "build"
  /\ inEntry
  /\ xmlText' = xmlText \o "</entry>"
  /\ inEntry' = FALSE
  /\ UNCHANGED <<variant, pc, lib, nEntries, nFields, contracts, extractVars,
                 handlerVars>>

ParseFeed ==
  /\ pc = "build"
  /\ pc' = "parsed"
  /\ contracts' = parseAtomFeed(variant, xmlText)
  /\ UNCHANGED <<variant, xmlText, feedVars, extractVars, handlerVars>>

NextParse ==
  \/ \E p \in Elements["layout"] : AppendPiece(p)
  \/ OpenEntry
  \/ \E el \in Elements[lib] : AddElement(el)
  \/ CloseEntry
  \/ ParseFeed

SpecParse == InitParse /\ [][NextParse]_vars

(***************************************************************************)
(* Properties of parseAtomFeed                                             *)
(***************************************************************************)
\* The entry fragments of a document, stated without the scan: an <entry>
\* marker opens a fragment when a </entry> marker follows it and no other
\* <entry> marker lies between the end of the last </entry> before it (or
\* the start of the document) and itself; the fragment's content ends at
\* the first </entry> after it.
OpenMarks(doc) ==
  {i \in 1..Len(doc) : i + 6 <= Len(doc) /\ SubSeq(doc, i, i + 6) = "<entry>"}

CloseMarks(doc) ==
  {j \in 1..Len(doc) : j + 7 <= Len(doc) /\ SubSeq(doc, j, j + 7) = "</entry>"}

FragmentStarts(doc) ==
  LET opens == OpenMarks(doc)
      closes == CloseMarks(doc)
      ScanStart(i) ==
        LET before == {j + 8 : j \in {c \in closes : c < i}}
        IN IF before = {} THEN 1 ELSE Max(before)
  IN {i \in opens : /\ \E j \in closes : j > i
                    /\ \A i2 \in opens : ~(ScanStart(i) <= i2 /\ i2 < i)}

FragmentContent(doc, i) ==
  SubSeq(doc, i + 7, Min({j \in CloseMarks(doc) : j > i}) - 1)

\* the contents of the entry fragments of doc, in document order
Fragments(doc) ==
  LET starts == FragmentStarts(doc)
      Nth(k) == CHOOSE i \in starts : Cardinality({x \in starts : x < i}) = k - 1
  IN [k \in 1..Cardinality(starts) |-> FragmentContent(doc, Nth(k))]

FragmentRecords(v, doc) ==
  LET frags == Fragments(doc)
  IN [k \in 1..Len(frags) |-> Contract(v, Text(frags[k]))]

\* the minimal-content predicate: piid or vendorName present with some
\* text, or obligatedAmount a number > 0
MinimalContent(r) ==
  \/ r.piid # Null /\ r.piid[1] # ""
  \/ r.vendorName # Null /\ r.vendorName[1] # ""
  \/ r.obligatedAmount.kind # "nan" /\ GreaterThanZero(r.obligatedAmount)

\* C1 as stated: parseAtomFeed returns exactly the records of the entry
\* fragments that satisfy the minimal-content predicate (piid present, or
\* vendorName present, or obligatedAmount > 0), in document order; a
\* document without an entry fragment yields the empty sequence.
C1_ExactlyContentfulFragments ==
  pc = "parsed" =>
    contracts = SelectSeq(FragmentRecords(variant, xmlText), MinimalContent)

\* the entry fragments of the parsed document, as texts
FragmentTexts == {Text(FragmentContent(xmlText, i)) : i \in FragmentStarts(xmlText)}

NumberOf(entry, tag) ==
  LET text == extractTag(entry, tag)
  IN IF text = Null \/ parseFloat(text[1]) = NaN THEN Zero
     ELSE parseFloat(text[1])

\* C2 as stated: obligatedAmount and baseAndAllOptions of every assembled
\* record are 0 when the tag is absent or its text is not parsable as a
\* number, and the parsed number otherwise.
C2_NumericDefaultZero ==
  pc = "parsed" =>
    \A k \in 1..Len(contracts) :
      \E entry \in FragmentTexts :
        /\ contracts[k].piid = extractTag(entry, "PIID")
        /\ contracts[k].obligatedAmount = NumberOf(entry, "obligatedAmount")
        /\ contracts[k].baseAndAllOptions =
             NumberOf(entry, "baseAndAllOptionsValue")

\* the tag aliases of the logical fields, in the priority order of each
\* version
AliasTable ==
  [ strict |->
      [ vendorName |-> <<"UEI_NAME", "vendorName">>,
        parentCompany |-> <<"ULTIMATE_UEI_NAME">>,
        completionDate |-> <<"currentCompletionDate">>,
        naicsCode |-> <<"NAICS_CODE", "principalNAICSCode">>,
        naicsDescription |->
          <<"NAICS_DESCRIPTION", "principalNAICSDescription">>,
        pscCode |-> <<"PRODUCT_OR_SERVICE_CODE", "productOrServiceCode">> ],
    lenient |->
      [ vendorName |-> <<"UEI_NAME", "vendorName", "UEILegalBusinessName">>,
        parentCompany |-> <<"ULTIMATE_UEI_NAME", "ultimateParentUEIName">>,
        completionDate |->
          <<"currentCompletionDate", "ultimateCompletionDate">>,
        naicsCode |-> <<"principalNAICSCode", "NAICS_CODE">>,
        naicsDescription |->
          <<"principalNAICSDescription", "NAICS_DESCRIPTION">>,
        pscCode |-> <<"productOrServiceCode", "PRODUCT_OR_SERVICE_CODE">> ] ]

AliasFields == DOMAIN AliasTable["lenient"]

\* the value extracted for the first alias whose tag occurs in the entry
FirstOccurring(entry, aliases) ==
  LET found == {k \in 1..Len(aliases) : extractTag(entry, aliases[k]) # Null}
  IN IF found = {} THEN Null ELSE extractTag(entry, aliases[Min(found)])

\* the value extracted for the first alias whose extracted text is not
\* empty; without one, the value extracted for the last alias
FirstNonEmpty(entry, aliases) ==
  LET found == {k \in 1..Len(aliases) :
                  /\ extractTag(entry, aliases[k]) # Null
                  /\ extractTag(entry, aliases[k])[1] # ""}
  IN IF found = {} THEN extractTag(entry, aliases[Len(aliases)])
     ELSE extractTag(entry, aliases[Min(found)])

\* C10 as stated: for every logical field with several aliases, the
\* record's value is the value extracted for the first alias, in priority
\* order, whose tag occurs in the fragment.
C10_FirstOccurringAliasWins ==
  pc = "parsed" =>
    \A k \in 1..Len(contracts) :
      \E entry \in FragmentTexts :
        /\ contracts[k].piid = extractTag(entry, "PIID")
        /\ \A f \in AliasFields :
             contracts[k][f] = FirstOccurring(entry, AliasTable[variant][f])

\* C10 amended: for every logical field with several aliases, the record's
\* value is the value extracted for the first alias, in the priority order
\* of the version, whose tag occurs in the fragment with non-empty trimmed
\* text; when no alias has non-empty text, it is the value extracted for
\* the last alias (null if that tag is absent, otherwise the empty string);
\* the choice for one field does not depend on any other field.
C10_FirstNonEmptyAliasWins ==
  pc = "parsed" =>
    \A k \in 1..Len(contracts) :
      \E entry \in FragmentTexts :
        /\ contracts[k].piid = extractTag(entry, "PIID")
        /\ \A f \in AliasFields :
             contracts[k][f] = FirstNonEmpty(entry, AliasTable[variant][f])

\* C10 witness: the lenient parser took vendorName from the second alias
\* although the tag of the first alias occurs in the fragment, with empty
\* text
C10_Witness ==
  /\ pc = "parsed"
  /\ variant = "lenient"
  /\ Len(contracts) = 1
  /\ contracts[1].vendorName = Some("VN")
  /\ \E entry \in FragmentTexts : extractTag(entry, "UEI_NAME") = Some("")

(***************************************************************************)
(* Field extraction on markup built from pieces                            *)
(***************************************************************************)
MaxMarkupPieces == 4

MarkupPieces ==
  { "<Foo", "<ns2:Foo", "<foo", "<Foobar", " attr=\"x\"", " xattr=\"y\"",
    ">bar", "> b ", "</Foo>", "</ns2:Foo>" }

TagNames == {"Foo", "Bar"}

InitExtract ==
  /\ variant = "lenient"
  /\ pc = "build"
  /\ xmlText = ""
  /\ nPieces = 0
  /\ tagName \in TagNames
  /\ extracted = Null
  /\ extractedAttr = Null
  /\ lib = "content"
  /\ inEntry = FALSE
  /\ nEntries = 0
  /\ nFields = 0
  /\ contracts = <<>>
  /\ HandlerIdle

AppendMarkup(p) ==
  /\ pc = "build"
  /\ nPieces < MaxMarkupPieces
  /\ xmlText' = xmlText \o p
  /\ nPieces' = nPieces + 1
  /\ UNCHANGED <<variant, pc, tagName, extracted, extractedAttr, feedVars,
                 contracts, handlerVars>>

Extract ==
  /\ pc = "build"
  /\ pc' = "extracted"
  /\ extracted' = extractTag(Text(xmlText), tagName)
  /\ extractedAttr' = extractTagAttribute(Text(xmlText), tagName, "attr")
  /\ UNCHANGED <<variant, xmlText, nPieces, tagName, feedVars, contracts,
                 handlerVars>>

NextExtract ==
  \/ \E p \in MarkupPieces : AppendMarkup(p)
  \/ Extract

SpecExtract == InitExtract /\ [][NextExtract]_vars

(***************************************************************************)
(* Properties of extractTag and extractTagAttribute                        *)
(***************************************************************************)
NamespacedExample == "<ns2:Foo attr=\"x\">bar</ns2:Foo>"

\* the characters a tag name is made of
NameChars ==
  UpperSet \cup {ToLower(c) : c \in UpperSet} \cup Digits
  \cup {"_", "-", ".", ":"}

\* the name tag, in any case, stands at position p of text t and ends there
NamedAt(t, p, tag) ==
  /\ StartsWithAt(t.l, p, Lowered(Chars(tag)))
  /\ p + Len(tag) <= Len(t.c) => t.c[p + Len(tag)] \notin NameChars

\* an opening tag whose name is tag, bare or with a prefix ns<digits>:,
\* occurs in text t
TagOccurs(t, tag) ==
  \E i \in 1..Len(t.c) :
    /\ t.c[i] = "<"
    /\ \/ NamedAt(t, i + 1, tag)
       \/ \E n \in 1..Len(t.c) :
            /\ StartsWithAt(t.l, i + 1, <<"n", "s">>)
            /\ i + 2 + n <= Len(t.c)
            /\ \A k \in (i + 3)..(i + 2 + n) : t.c[k] \in Digits
            /\ t.c[i + 3 + n] = ":"
            /\ NamedAt(t, i + 4 + n, tag)

Trimmed(str) ==
  str = "" \/ (SubSeq(str, 1, 1) \notin WhiteSpace
               /\ SubSeq(str, Len(str), Len(str)) \notin WhiteSpace)

\* C8 as stated: extractTag returns the trimmed text of the first opening
\* tag whose name is the requested tag (bare or prefixed ns<digits>:, in
\* any case) and extractTagAttribute the value of the named attribute of
\* that tag; both return null when no tag of that name occurs; on
\* <ns2:Foo attr="x">bar</ns2:Foo> they return 'bar' and 'x' for 'Foo'.
C8_ExtractsTheNamedTag ==
  pc = "extracted" =>
    /\ ~TagOccurs(Text(xmlText), tagName) =>
         extracted = Null /\ extractedAttr = Null
    /\ extracted # Null => Trimmed(extracted[1])
    /\ xmlText = NamespacedExample /\ tagName = "Foo" =>
         extracted = Some("bar") /\ extractedAttr = Some("x")

(***************************************************************************)
(* buildFPDSQuery on date ranges                                           *)
(***************************************************************************)
\* startDate and endDate values: absent, empty, well-formed, malformed
DateInputs ==
  { Null, Some(""), Some("2024-01-15"), Some("2024-02-15"),
    Some("2023-12-31"), Some("2024-02-29"), Some("2024-1-5"),
    Some("20240115"), Some("2024/01/15"), Some("Jan-15"),
    Some("01-15-2024") }

InitQuery ==
  /\ variant \in {"strict", "lenient"}
  /\ pc = "build"
  /\ \E s \in DateInputs, e \in DateInputs, n \in {Null, Some("541511")} :
       params = [NoParams EXCEPT !.startDate = s, !.endDate = e, !.naics = n]
  /\ query = Null
  /\ method = "GET"
  /\ today = Null
  /\ reqCount = 0
  /\ upstream = [kind |-> "none", status |-> 0, body |-> "none", left |-> <<>>]
  /\ data = ""
  /\ parseCalls = 0
  /\ error = Null
  /\ response = Null
  /\ xmlText = ""
  /\ nPieces = 0
  /\ tagName = ""
  /\ extracted = Null
  /\ extractedAttr = Null
  /\ lib = "layout"
  /\ inEntry = FALSE
  /\ nEntries = 0
  /\ nFields = 0
  /\ contracts = <<>>

\* const searchQuery = buildFPDSQuery(params)
BuildFromParams ==
  /\ pc = "build"
  /\ query' = buildFPDSQuery(variant, params)
  /\ pc' = "built"
  /\ UNCHANGED <<variant, params, method, today, reqCount, upstream, data,
                 parseCalls, error, response, xmlText, extractVars, feedVars,
                 contracts>>

NextQuery == BuildFromParams

SpecQuery == InitQuery /\ [][NextQuery]_vars

\* the values between '[' and ',' and between ',' and ']' of the first
\* range clause of the query q, Null when q has none
EmittedRange(q) ==
  LET cs == Chars(q)
      First(ch, from) ==
        LET at == {x \in from..Len(cs) : cs[x] = ch}
        IN IF at = {} THEN 0 ELSE Min(at)
      i == First("[", 1)
      j == IF i = 0 THEN 0 ELSE First(",", i)
      k == IF j = 0 THEN 0 ELSE First("]", j)
  IN IF k = 0 \/ i < 2 THEN Null
     ELSE Some([colon |-> cs[i - 1], start |-> SubSeq(q, i + 1, j - 1),
                end |-> SubSeq(q, j + 1, k - 1)])

\* str is four digits, sep, two digits, sep, two digits
DateShaped(str, sep) ==
  LET cs == Chars(str)
  IN /\ Len(cs) = 10
     /\ \A k \in {1, 2, 3, 4, 6, 7, 9, 10} : cs[k] \in Digits
     /\ cs[5] = sep /\ cs[8] = sep

\* year, month and day of a date-shaped string
ParseDate(str) ==
  LET cs == Chars(str)
  IN [y |-> DigitsVal(cs, 1, 4), m |-> DigitsVal(cs, 6, 7),
      d |-> DigitsVal(cs, 9, 10)]

\* out is the string in with every '-' replaced by '/'
HyphensAsSlashes(in, out) ==
  /\ Len(out) = Len(in)
  /\ \A k \in 1..Len(in) :
       SubSeq(out, k, k) = IF SubSeq(in, k, k) = "-" THEN "/"
                           ELSE SubSeq(in, k, k)

RangeGiven == Truthy(params.startDate) /\ Truthy(params.endDate)

\* C9 as stated: for every supplied date range the query builder emits the
\* clause FIELD:[start,end] in which a well-formed YYYY-MM-DD value appears
\* as YYYY/MM/DD denoting the same calendar date, and a malformed value
\* passes through unchanged.
C9_NormalisedOrUnchanged ==
  pc = "built" /\ RangeGiven =>
    LET r == EmittedRange(query)
        Ok(in, out) ==
          IF DateShaped(in, "-")
          THEN DateShaped(out, "/") /\ ParseDate(out) = ParseDate(in)
          ELSE out = in
    IN /\ r # Null
       /\ r[1].colon = ":"
       /\ Ok(params.startDate[1], r[1].start)
       /\ Ok(params.endDate[1], r[1].end)

\* C9 amended: for every supplied date range the query builder emits the
\* clause FIELD:[start,end] in which every '-' of each value is replaced by
\* '/' and nothing else is changed: a well-formed YYYY-MM-DD value appears
\* as YYYY/MM/DD denoting the same calendar date, and a malformed value
\* passes through with its hyphens, if any, turned into slashes.
C9_HyphensBecomeSlashes ==
  pc = "built" /\ RangeGiven =>
    LET r == EmittedRange(query)
        Ok(in, out) ==
          /\ HyphensAsSlashes(in, out)
          /\ DateShaped(in, "-") =>
               DateShaped(out, "/") /\ ParseDate(out) = ParseDate(in)
    IN /\ r # Null
       /\ r[1].colon = ":"
       /\ Ok(params.startDate[1], r[1].start)
       /\ Ok(params.endDate[1], r[1].end)

\* C9 witness: a range of a well-formed and a malformed hyphenated date has
\* been built into a clause
C9_Witness ==
  /\ pc = "built"
  /\ params.startDate = Some("2024-01-15")
  /\ params.endDate = Some("2024-1-5")
  /\ Contains(query, ":[2024/01/15,2024/1/5]")
====
